---- MODULE Spec2Model ----
(***************************************************************************)
(* State-machine model of the automated monitoring and evaluation loop of  *)
(* the F1 betting toolkit: AutoRaceEvaluator (ml/auto_race_evaluator.py),  *)
(* F1BetSimulator (ml/bet_simulator.py) and AutoF1RaceMonitor              *)
(* (ml/auto_race_monitor.py).                                              *)
(*                                                                         *)
(* Representation.  A CSV file is a record: whether pandas can parse it,   *)
(* its set of columns, and its rows in file order.  A missing cell (NaN)   *)
(* is NA.  A file name is the sequence of its words ("bahrain_results.csv" *)
(* is <<"bahrain", "results">>), so that glob patterns and the keyword     *)
(* search of extract_race_name_from_file are computed on the name.         *)
(* Pass-through columns of a recommendation (Predicted_Probability, EV)    *)
(* are copied unchanged by the code and are not represented.               *)
(***************************************************************************)
EXTENDS Integers, Sequences, FiniteSets, TLC

VARIABLES
    files,            \* watch directory: file name -> file (or NoFile)
    betting_file,     \* data/live/betting_recommendations.csv
    master_log,       \* data/processed/bet_simulation_log.csv (the ledger)
    archive,          \* archive directory: the files moved there, in order
    processed_file,   \* data/processed/processed_races.json (registry on disk)
    processed_races,  \* AutoRaceEvaluator.processed_races (registry in memory)
    epc,              \* position of the evaluator inside run_single_check
    new_files,        \* run_single_check: candidates not yet handed to process
    cur,              \* process_new_race_results: file_path, race_name, simulation_log
    processed_count,  \* run_single_check: processed_count
    last,             \* outcome of the most recent process_new_race_results call
    before_log,       \* the master log when that call began
    prev,             \* the file and simulation log of the latest master log update
    rejected,         \* files that failed validation and were not rewritten since
    arrivals,         \* number of files written into the watch directory so far
    now,              \* the clock (datetime.now()), in tenths of an hour
    schedule_file,    \* data/live/race_schedule.json
    odds_file,        \* data/live/current_odds.csv
    pred_file,        \* data/live/next_race_predictions.csv
    mpc,              \* position of the monitor inside run_monitoring_cycle
    next_race,        \* run_monitoring_cycle: next_race, race_time
    cycle,            \* what the latest monitoring cycle read and did
    probe             \* one function applied on its own: its input and its result

evars == <<files, betting_file, master_log, archive, processed_file,
           processed_races, epc, new_files, cur, processed_count, last, before_log,
           prev, rejected, arrivals>>

mvars == <<now, schedule_file, odds_file, pred_file, mpc, next_race, cycle>>

pvars == <<probe>>

vars == <<evars, mvars, pvars>>

----------------------------------------------------------------------------
(* Bounds and input domains *)

MaxArrivals == 2          \* files written into the watch directory in one run
MaxRows == 2              \* rows of a result file
MaxBets == 1              \* rows of the recommendations file

NA == "NA"                \* a missing text cell
NaN == 0                  \* a missing Actual_Position (positions start at 1)

Drivers == {"A", "B", "C", "D"}
EvalDrivers == {"A", "B"}
Positions == {2, 3, 4, 5}
EvalPositions == {3, 4}
Quotes == {5}

\* Sequences over S of length at most n
RECURSIVE SeqsUpTo(_, _)
SeqsUpTo(S, n) ==
    IF n = 0 THEN {<< >>}
    ELSE LET shorter == SeqsUpTo(S, n - 1)
         IN  shorter \cup {Append(s, x) : s \in {t \in shorter : Len(t) = n - 1}, x \in S}

----------------------------------------------------------------------------
(* Configuration: AutoRaceEvaluator.load_config defaults *)

bet_amount == 10
starting_capital == 1000
success_threshold == 3
min_file_age_seconds == 30

\* "*results*.csv", "*race_results*.csv", "*actual*.csv" on word sequences
file_patterns == <<"results", "race_results", "actual">>

RECURSIVE HasWord(_, _)
HasWord(name, w) ==
    IF name = << >> THEN FALSE
    ELSE Head(name) = w \/ HasWord(Tail(name), w)

RECURSIVE HasPair(_, _, _)
HasPair(name, w1, w2) ==
    IF Len(name) < 2 THEN FALSE
    ELSE (name[1] = w1 /\ name[2] = w2) \/ HasPair(Tail(name), w1, w2)

\* glob.glob's match of one pattern against a file name
Matches(pattern, name) ==
    CASE pattern = "results"      -> HasWord(name, "results")
      [] pattern = "race_results" -> HasPair(name, "race", "results")
      [] pattern = "actual"       -> HasWord(name, "actual")
      [] OTHER                    -> FALSE

----------------------------------------------------------------------------
(* Files *)

NoFile == [present |-> FALSE, age |-> 0, readable |-> FALSE, cols |-> {}, rows |-> << >>]

\* A result row; Race_Name is NA when the file has no such column or the cell is empty
ResultRow(d, p, r) == [Driver |-> d, Actual_Position |-> p, Race_Name |-> r]

\* A recommendation row of betting_recommendations.csv
BetRow(r, d, q) == [Race_Name |-> r, Driver |-> d, Quote |-> q]

\* shape: "ok" when pd.read_csv parses the file and it has the columns
\* Race_Name, Driver and Quote
NoBettingFile == [exists |-> FALSE, shape |-> "ok", rows |-> << >>]

\* pd.read_csv(file_path): TRUE when it returns a frame, FALSE when it raises
\* (file missing, or not parseable)
ReadCsvOk(f) == f.present /\ f.readable

----------------------------------------------------------------------------
(* AutoRaceEvaluator: pure parts *)

ValidateMutantDriverOnly(f) ==
    ReadCsvOk(f) /\ "Driver" \in f.cols

\* validate_race_results_file: (is_valid, _)
validate_race_results_file(f) ==
    ReadCsvOk(f) /\ "Driver" \in f.cols /\ "Actual_Position" \in f.cols

\* race_indicators with indicator.title() + " GP" beside each keyword
race_indicators == <<
    <<"bahrain", "Bahrain GP">>, <<"saudi", "Saudi GP">>,
    <<"australia", "Australia GP">>, <<"japan", "Japan GP">>,
    <<"china", "China GP">>, <<"miami", "Miami GP">>, <<"spain", "Spain GP">>,
    <<"monaco", "Monaco GP">>, <<"canada", "Canada GP">>,
    <<"austria", "Austria GP">>, <<"britain", "Britain GP">>,
    <<"hungary", "Hungary GP">>, <<"belgium", "Belgium GP">>,
    <<"netherlands", "Netherlands GP">>, <<"italy", "Italy GP">>,
    <<"singapore", "Singapore GP">>, <<"russia", "Russia GP">>,
    <<"turkey", "Turkey GP">>, <<"usa", "Usa GP">>, <<"mexico", "Mexico GP">>,
    <<"brazil", "Brazil GP">>, <<"qatar", "Qatar GP">>,
    <<"abu_dhabi", "Abu_Dhabi GP">> >>

\* the name made from datetime.now() when nothing else identifies the race
TimestampName == "Race_timestamp"

\* first-occurrence distinct values of a sequence (Series.unique())
RECURSIVE Unique(_)
Unique(s) ==
    IF s = << >> THEN << >>
    ELSE LET rest == Unique(SelectSeq(Tail(s), LAMBDA x : x # Head(s)))
         IN  <<Head(s)>> \o rest

RECURSIVE KeywordName(_, _)
KeywordName(name, i) ==
    IF i > Len(race_indicators) THEN NA
    ELSE IF HasWord(name, race_indicators[i][1]) THEN race_indicators[i][2]
    ELSE KeywordName(name, i + 1)

ExtractRaceNameMutantContentFirst(name, f) ==
    LET kw == KeywordName(name, 1)
        race_names == Unique([i \in 1..Len(f.rows) |-> f.rows[i].Race_Name])
    IN  IF ReadCsvOk(f) /\ "Race_Name" \in f.cols /\ Len(race_names) = 1
        THEN race_names[1]
        ELSE IF kw # NA THEN kw
        ELSE TimestampName

\* extract_race_name_from_file
extract_race_name_from_file(name, f) ==
    LET kw == KeywordName(name, 1)
        race_names == Unique([i \in 1..Len(f.rows) |-> f.rows[i].Race_Name])
    IN  IF kw # NA THEN kw
        ELSE IF ReadCsvOk(f) /\ "Race_Name" \in f.cols /\ Len(race_names) = 1
             THEN race_names[1]
        ELSE TimestampName

\* detect_new_race_files: listing is the order in which the directory lists its
\* files; a file is appended once for every pattern it matches
RECURSIVE GlobOne(_, _, _, _)
GlobOneMutantAnyAge(pattern, listing, dir, registry) ==
    SelectSeq(listing, LAMBDA n : dir[n].present /\ Matches(pattern, n) /\ n \notin registry)

GlobOne(pattern, listing, dir, registry) ==
    IF listing = << >> THEN << >>
    ELSE LET n == Head(listing)
             rest == GlobOne(pattern, Tail(listing), dir, registry)
         IN  IF dir[n].present /\ Matches(pattern, n)
                /\ dir[n].age >= min_file_age_seconds
                /\ n \notin registry
             THEN <<n>> \o rest
             ELSE rest

RECURSIVE detect_from(_, _, _, _)
detect_from(i, listing, dir, registry) ==
    IF i > Len(file_patterns) THEN << >>
    ELSE GlobOne(file_patterns[i], listing, dir, registry)
         \o detect_from(i + 1, listing, dir, registry)

detect_new_race_files(listing, dir, registry) == detect_from(1, listing, dir, registry)

----------------------------------------------------------------------------
(* F1BetSimulator *)

\* pd.merge(betting_df, results_df, on=['Driver', 'Race_Name'], how='inner'):
\* left rows in order, each with its matching right rows in order
RECURSIVE MergeRow(_, _)
\* a left join: a recommendation without a result row is kept, position missing
MergeRowMutantLeft(b, results) ==
    LET hits == SelectSeq(results, LAMBDA r : r.Driver = b.Driver /\ r.Race_Name = b.Race_Name)
    IN  IF hits = << >>
        THEN <<[Race_Name |-> b.Race_Name, Driver |-> b.Driver, Quote |-> b.Quote,
                Actual_Position |-> NaN]>>
        ELSE [i \in 1..Len(hits) |->
                [Race_Name |-> b.Race_Name, Driver |-> b.Driver, Quote |-> b.Quote,
                 Actual_Position |-> hits[i].Actual_Position]]

MergeRow(b, results) ==
    IF results = << >> THEN << >>
    ELSE LET r == Head(results)
             rest == MergeRow(b, Tail(results))
         IN  IF r.Driver = b.Driver /\ r.Race_Name = b.Race_Name
             THEN <<[Race_Name |-> b.Race_Name, Driver |-> b.Driver, Quote |-> b.Quote,
                     Actual_Position |-> r.Actual_Position]>> \o rest
             ELSE rest

RECURSIVE Merge(_, _)
Merge(bets, results) ==
    IF bets = << >> THEN << >>
    ELSE MergeRow(Head(bets), results) \o Merge(Tail(bets), results)

\* the comparison row['Actual_Position'] <= top_n_success; NaN <= n is False
WinsMutantStrict(pos, top_n_success) == pos # NaN /\ pos < top_n_success
Wins(pos, top_n_success) == pos # NaN /\ pos <= top_n_success

\* profit of one bet (bet_simulator.py lines 81-89)
ProfitMutantStake(quote, stake, win) == IF win THEN quote * stake ELSE 0 - stake
Profit(quote, stake, win) == IF win THEN (quote * stake) - stake ELSE 0 - stake

\* the entry appended to simulation_log for one merged row
LogEntry(row, stake, top_n_success) ==
    LET win == Wins(row.Actual_Position, top_n_success)
    IN  [Race_Name |-> row.Race_Name, Driver |-> row.Driver, Quote |-> row.Quote,
         Actual_Position |-> row.Actual_Position, Bet_Amount |-> stake,
         Outcome |-> IF win THEN "WIN" ELSE "LOSS",
         Profit_Loss |-> Profit(row.Quote, stake, win),
         Success_Threshold |-> top_n_success]

\* simulate_bets: the simulation_log it builds, race by race in the order in
\* which the races first occur in the merged frame
RECURSIVE SimulateRaces(_, _, _, _)
SimulateRaces(races, merged, stake, top_n_success) ==
    IF races = << >> THEN << >>
    ELSE LET race_data == SelectSeq(merged, LAMBDA m : m.Race_Name = Head(races))
         IN  [i \in 1..Len(race_data) |-> LogEntry(race_data[i], stake, top_n_success)]
             \o SimulateRaces(Tail(races), merged, stake, top_n_success)

simulate_bets(betting_df, results_df, stake, top_n_success) ==
    LET merged_df == Merge(betting_df, results_df)
        races == Unique([i \in 1..Len(merged_df) |-> merged_df[i].Race_Name])
    IN  SimulateRaces(races, merged_df, stake, top_n_success)

RECURSIVE SumProfit(_)
SumProfit(log) ==
    IF log = << >> THEN 0 ELSE Head(log).Profit_Loss + SumProfit(Tail(log))

----------------------------------------------------------------------------
(* The master log *)

NoLog == [state |-> "absent", rows |-> << >>]

\* updated_log.drop_duplicates(subset=['Race_Name', 'Driver'], keep='last')
SameBet(a, b) == a.Race_Name = b.Race_Name /\ a.Driver = b.Driver

DropDuplicatesMutantNone(log) == log
drop_duplicates(log) ==
    LET keep(i) == ~(\E j \in (i + 1)..Len(log) : SameBet(log[i], log[j]))
        idx == {i \in 1..Len(log) : keep(i)}
        RECURSIVE pick(_)
        pick(i) == IF i > Len(log) THEN << >>
                   ELSE IF i \in idx THEN <<log[i]>> \o pick(i + 1) ELSE pick(i + 1)
    IN  pick(1)

\* update_master_log can read the existing log: the file is absent, or
\* pd.read_csv parses it.  A log written from a frame without columns holds
\* only a line break, and pd.read_csv raises EmptyDataError on it.
MasterLogReadable(log) == log.state # "empty"

\* update_master_log: the file it writes
update_master_log(log, new_simulation_data) ==
    LET updated_log == drop_duplicates(log.rows \o new_simulation_data)
    IN  IF updated_log = << >> THEN [state |-> "empty", rows |-> << >>]
        ELSE [state |-> "ok", rows |-> updated_log]

\* race names in the order in which groupby('Race_Name') sorts its keys
SortedRaceNames == <<"Bahrain GP", "Monaco GP", "Race_timestamp">>

\* Series.sum() of the Profit_Loss of one group
group_sum(log, race) == SumProfit(SelectSeq(log, LAMBDA e : e.Race_Name = race))

RECURSIVE SumTo(_, _)
SumTo(s, k) == IF k = 0 THEN 0 ELSE SumTo(s, k - 1) + s[k]

CumsumMutantNone(s) == s
\* Series.cumsum()
cumsum(s) == [k \in 1..Len(s) |-> SumTo(s, k)]

\* update_profit_graph: races and capitals, the two lists it plots
capital_series(log) ==
    LET races == SelectSeq(SortedRaceNames,
                           LAMBDA r : \E i \in 1..Len(log) : log[i].Race_Name = r)
        race_profits == cumsum([k \in 1..Len(races) |-> group_sum(log, races[k])])
    IN  [k \in 1..Len(races) |->
            [race |-> races[k], capital |-> race_profits[k] + starting_capital]]

----------------------------------------------------------------------------
(* Inputs of the evaluator *)

FileNames == {<<"bahrain", "results">>, <<"monaco", "race", "results">>}

RaceNames == {"Bahrain GP", "Monaco GP"}

ResultRows == {ResultRow(d, p, NA) : d \in EvalDrivers, p \in EvalPositions}

\* rows of a file that has a Race_Name column holding r in every row
WithRace(rows, r) == [i \in 1..Len(rows) |-> [rows[i] EXCEPT !.Race_Name = r]]

BadFiles ==
    {[present |-> TRUE, age |-> 10, readable |-> FALSE, cols |-> {}, rows |-> << >>],
     [present |-> TRUE, age |-> 10, readable |-> TRUE,
      cols |-> {"Driver"}, rows |-> << >>],
     [present |-> TRUE, age |-> 10, readable |-> TRUE,
      cols |-> {"Actual_Position"}, rows |-> << >>]}

GoodFiles ==
    {[present |-> TRUE, age |-> 10, readable |-> TRUE,
      cols |-> {"Driver", "Actual_Position"}, rows |-> rows] :
        rows \in SeqsUpTo(ResultRows, MaxRows)}

ResultFiles == BadFiles \cup GoodFiles

BetRows == {BetRow(r, d, q) : r \in RaceNames, d \in EvalDrivers, q \in Quotes}

BetRowSeqs == SeqsUpTo(BetRows, MaxBets)

\* the orders in which a directory can list its files
Listings ==
    {l \in SeqsUpTo(FileNames, Cardinality(FileNames)) :
        Len(l) = Cardinality(FileNames) /\ \A n \in FileNames : \E i \in 1..Len(l) : l[i] = n}

----------------------------------------------------------------------------
(* AutoRaceEvaluator: state machine *)

NoCur == [file_path |-> << >>, race_name |-> NA, simulation_log |-> << >>,
          no_recs |-> FALSE, replay |-> FALSE]
NoLast == [file |-> << >>, ret |-> "none", stage |-> "none", no_recs |-> FALSE]
NoPrev == [file_path |-> << >>, simulation_log |-> << >>]

EvalInit ==
    /\ files = [n \in FileNames |-> NoFile]
    /\ betting_file = NoBettingFile
    /\ master_log = NoLog
    /\ archive = << >>
    /\ processed_file = {}
    /\ processed_races = {}
    /\ epc = "idle"
    /\ new_files = << >>
    /\ cur = NoCur
    /\ processed_count = 0
    /\ last = NoLast
    /\ before_log = NoLog
    /\ prev = NoPrev
    /\ rejected = {}
    /\ arrivals = 0

\* the statements of process_new_race_results that change persistent state,
\* in the order of lines 250-261
process_steps_mutant == <<"registry", "update_master_log", "archive">>
process_steps == <<"update_master_log", "archive", "registry">>

\* process_new_race_results returns for the file at the head of new_files
Return(ret, stage, no_recs) ==
    /\ last' = [file |-> Head(new_files), ret |-> ret, stage |-> stage,
                no_recs |-> no_recs]
    /\ processed_count' = IF ret = "True" THEN processed_count + 1 ELSE processed_count
    /\ new_files' = Tail(new_files)
    /\ cur' = NoCur
    /\ epc' = "loop"

\* process_new_race_results raises: run_single_check does not catch it
Raise(stage) ==
    /\ last' = [file |-> Head(new_files), ret |-> "raise", stage |-> stage,
                no_recs |-> FALSE]
    /\ new_files' = << >>
    /\ cur' = NoCur
    /\ epc' = "raised"
    /\ UNCHANGED processed_count

\* control passes to the statement after step, or the call returns True
Continue(step) ==
    LET i == CHOOSE k \in 1..Len(process_steps) : process_steps[k] = step
    IN  IF i = Len(process_steps)
        THEN Return("True", "done", cur.no_recs)
        ELSE /\ epc' = process_steps[i + 1]
             /\ UNCHANGED <<new_files, cur, processed_count, last>>

\* results_df['Race_Name'] = race_name when the file has no such column
results_df(f, race_name) ==
    IF "Race_Name" \in f.cols THEN f.rows ELSE WithRace(f.rows, race_name)

\* betting_df[betting_df['Race_Name'] == race_name]
race_bets(betting_df, race_name) ==
    SelectSeq(betting_df, LAMBDA b : b.Race_Name = race_name)

\* run_single_check, to the start of its loop, when the scan returned found
EnterLoop(found) ==
    /\ epc = "idle"
    /\ found # << >>
    /\ new_files' = found
    /\ processed_count' = 0
    /\ epc' = "loop"
    /\ UNCHANGED <<files, betting_file, master_log, archive, processed_file,
                   processed_races, cur, last, before_log, prev, rejected, arrivals>>

\* run_single_check leaves its loop: it returns processed_count, or the
\* exception of process_new_race_results leaves it
LeaveLoop ==
    /\ \/ epc = "loop" /\ new_files = << >>
       \/ epc = "raised"
    /\ epc' = "idle"
    /\ processed_count' = 0
    /\ last' = NoLast
    /\ before_log' = NoLog
    /\ UNCHANGED <<files, betting_file, master_log, archive, processed_file,
                   processed_races, new_files, cur, prev, rejected, arrivals>>

\* run_single_check called on its own (a scan that finds nothing returns 0
\* and changes nothing)
RunSingleCheck ==
    /\ \E listing \in Listings :
         EnterLoop(detect_new_race_files(listing, files, processed_races))
    /\ UNCHANGED mvars
    /\ UNCHANGED pvars

RunSingleCheckReturn ==
    /\ mpc # "evaluating"
    /\ LeaveLoop
    /\ UNCHANGED mvars
    /\ UNCHANGED pvars

\* process_new_race_results, lines 195-247: validation, race name, the
\* recommendations of the race, the simulation
ProcessNewRaceResults ==
    /\ epc = "loop"
    /\ new_files # << >>
    /\ LET file_path == Head(new_files)
           f == files[file_path]
           race_name == extract_race_name_from_file(file_path, f)
           bets == race_bets(betting_file.rows, race_name)
       IN  /\ before_log' = master_log
           /\ IF ~validate_race_results_file(f)
              THEN /\ Return("False", "validate", FALSE)
                   /\ rejected' = IF f.present THEN rejected \cup {file_path}
                                  ELSE rejected
              ELSE /\ UNCHANGED rejected
                   /\ IF ~betting_file.exists
                      THEN Return("False", "betting_file", TRUE)
                      ELSE IF betting_file.shape # "ok"
                      THEN Raise("betting_file")
                      ELSE /\ cur' = [file_path |-> file_path, race_name |-> race_name,
                                      simulation_log |->
                                          simulate_bets(bets, results_df(f, race_name),
                                                        bet_amount, success_threshold),
                                      no_recs |-> bets = << >>,
                                      replay |->
                                          /\ prev.file_path = file_path
                                          /\ prev.simulation_log =
                                               simulate_bets(bets, results_df(f, race_name),
                                                             bet_amount, success_threshold)]
                           /\ epc' = process_steps[1]
                           /\ UNCHANGED <<new_files, processed_count, last>>
    /\ UNCHANGED <<files, betting_file, master_log, archive, processed_file,
                   processed_races, prev, arrivals>>
    /\ UNCHANGED mvars
    /\ UNCHANGED pvars

\* process_new_race_results, lines 249-253: update_master_log (and
\* update_profit_graph, which only reads the log)
UpdateMasterLog ==
    /\ epc = "update_master_log"
    /\ IF MasterLogReadable(master_log)
       THEN /\ master_log' = update_master_log(master_log, cur.simulation_log)
            /\ prev' = [file_path |-> cur.file_path,
                        simulation_log |-> cur.simulation_log]
            /\ Continue("update_master_log")
       ELSE /\ Return("False", "master_log", cur.no_recs)
            /\ UNCHANGED <<master_log, prev>>
    /\ UNCHANGED <<files, betting_file, archive, processed_file, processed_races,
                   before_log, rejected, arrivals>>
    /\ UNCHANGED mvars
    /\ UNCHANGED pvars

\* process_new_race_results, line 256: archive_processed_file (shutil.move;
\* its exception is logged and swallowed)
ArchiveProcessedFile ==
    /\ epc = "archive"
    /\ IF files[cur.file_path].present
       THEN /\ files' = [files EXCEPT ![cur.file_path] = NoFile]
            /\ archive' = Append(archive, cur.file_path)
       ELSE UNCHANGED <<files, archive>>
    /\ Continue("archive")
    /\ UNCHANGED <<betting_file, master_log, processed_file, processed_races,
                   before_log, prev, rejected, arrivals>>
    /\ UNCHANGED mvars
    /\ UNCHANGED pvars

\* process_new_race_results, lines 259-277: the file name is appended to
\* processed_races and save_processed_races writes the registry; when the
\* write raises, the except clause returns False
SaveProcessedRaces ==
    /\ epc = "registry"
    /\ processed_races' = processed_races \cup {cur.file_path}
    /\ \/ /\ processed_file' = processed_races'
          /\ Continue("registry")
       \/ /\ UNCHANGED processed_file
          /\ Return("False", "registry", cur.no_recs)
    /\ UNCHANGED <<files, betting_file, master_log, archive, before_log, prev,
                   rejected, arrivals>>
    /\ UNCHANGED mvars
    /\ UNCHANGED pvars

(* Environment of the evaluator, between two checks *)

\* a result file is written into the watch directory (new, replaced or put back)
Arrives(names, contents) ==
    /\ epc = "idle"
    /\ \E n \in names, f \in contents :
         /\ files' = [files EXCEPT ![n] = f]
         /\ rejected' = rejected \ {n}
    /\ arrivals' = arrivals + 1
    /\ UNCHANGED <<betting_file, master_log, archive, processed_file,
                   processed_races, epc, new_files, cur, processed_count, last,
                   before_log, prev>>

FileArrives ==
    /\ arrivals < MaxArrivals
    /\ Arrives(FileNames, ResultFiles)
    /\ UNCHANGED mvars
    /\ UNCHANGED pvars

\* time passes: a file becomes older than min_file_age_seconds
FileAges ==
    /\ epc = "idle"
    /\ \E n \in FileNames :
         /\ files[n].present
         /\ files[n].age < min_file_age_seconds
         /\ files' = [files EXCEPT ![n].age = 60]
    /\ UNCHANGED <<betting_file, master_log, archive, processed_file,
                   processed_races, epc, new_files, cur, processed_count, last,
                   before_log, prev, rejected, arrivals>>
    /\ UNCHANGED mvars
    /\ UNCHANGED pvars

\* the recommendations file is written: well-formed, or in a shape the
\* evaluator cannot use
WriteRecommendations ==
    /\ epc = "idle"
    /\ \/ \E rows \in BetRowSeqs :
            betting_file' = [exists |-> TRUE, shape |-> "ok", rows |-> rows]
       \/ betting_file' = [exists |-> TRUE, shape |-> "bad", rows |-> << >>]
    /\ UNCHANGED <<files, master_log, archive, processed_file, processed_races,
                   epc, new_files, cur, processed_count, last, before_log, prev,
                   rejected, arrivals>>
    /\ UNCHANGED mvars
    /\ UNCHANGED pvars

\* the registry is cleared by hand and the evaluator started again
ResetRegistry ==
    /\ epc = "idle"
    /\ processed_file' = {}
    /\ processed_races' = {}
    /\ UNCHANGED <<files, betting_file, master_log, archive, epc, new_files, cur,
                   processed_count, last, before_log, prev, rejected, arrivals>>
    /\ UNCHANGED mvars
    /\ UNCHANGED pvars

LoadProcessedRacesMutantEmpty(file) == {}

\* load_processed_races: the names stored in the registry file
load_processed_races(file) == file

\* a new evaluator is constructed: __init__ calls load_processed_races
Restart ==
    /\ epc \in {"idle", "stopped"}
    /\ epc' = "idle"
    /\ processed_races' = load_processed_races(processed_file)
    /\ last' = [NoLast EXCEPT !.stage = "restart"]
    /\ UNCHANGED <<files, betting_file, master_log, archive, processed_file,
                   new_files, cur, processed_count, before_log, prev, rejected, arrivals>>
    /\ UNCHANGED mvars
    /\ UNCHANGED pvars

----------------------------------------------------------------------------
(* AutoF1RaceMonitor.  Times are in tenths of an hour. *)

\* load_config defaults, in tenths of an hour
odds_fetch_hours_before_race == <<720, 480, 240, 120, 60, 20>>
prediction_hours_before_race == 240
auto_process_results_hours_after_race == 40
\* the literals of the code: the +-1 hour of the fetch and prediction windows,
\* the 48 hours of "recent" odds and predictions, the 24 hours of the schedule
window_hours == 10
recent_hours == 480
schedule_refresh_hours == 240

Never == 0 - 1
Abs(x) == IF x < 0 THEN 0 - x ELSE x

\* the season returned by fastf1.get_event_schedule: two races a week apart
FirstRaceTime == 300
\* (offset: the race_date string carries a UTC offset, as in "...+00:00" or
\* "...Z"; datetime.fromisoformat then returns a timezone-aware datetime)
Season ==
    <<[race_name |-> "Bahrain Grand Prix", race_date |-> FirstRaceTime,
       offset |-> FALSE],
      [race_name |-> "Monaco Grand Prix", race_date |-> FirstRaceTime + 1680,
       offset |-> FALSE]>>

\* the instants at which the clock is read, around the first race (T):
\* T-25.5h, T-25.1h, T-25h, T-24h, T-23h, T-22.9h, T-2h, T-0.5h, T, T+0.5h,
\* T+4h, T+4.1h
Instants ==
    <<FirstRaceTime - 255, FirstRaceTime - 251, FirstRaceTime - 250,
      FirstRaceTime - 240, FirstRaceTime - 230, FirstRaceTime - 229,
      FirstRaceTime - 20, FirstRaceTime - 5, FirstRaceTime, FirstRaceTime + 5,
      FirstRaceTime + 40, FirstRaceTime + 41>>

NoRace == [race_name |-> NA, race_date |-> Never, offset |-> FALSE]
NoSchedule == [exists |-> FALSE, mtime |-> Never, races |-> << >>]
NoTimedFile == [exists |-> FALSE, mtime |-> Never, race_name |-> NA]
NoProbe == [fn |-> "none"]
NoCycle == [start |-> Never, race_time |-> Never,
            odds_at |-> Never, odds_due |-> FALSE,
            pred_at |-> Never, pred_due |-> FALSE,
            scanned |-> FALSE, done |-> FALSE, ticked |-> FALSE,
            stale |-> FALSE, refreshed |-> FALSE]

\* update_race_schedule.get_next_race: the race with the earliest race_date
\* after t, the first of them in file order (list.sort is stable); NoRace when
\* there is none.  The tzinfo of a parsed date is dropped before it is compared.
schedule_get_next_race(races, t) ==
    LET upcoming_races ==
            SelectSeq(races, LAMBDA r : r.race_date # Never /\ r.race_date > t)
    IN  IF upcoming_races = << >> THEN NoRace
        ELSE upcoming_races[
                 CHOOSE i \in 1..Len(upcoming_races) :
                    /\ \A j \in 1..Len(upcoming_races) :
                          upcoming_races[i].race_date <= upcoming_races[j].race_date
                    /\ \A j \in 1..(i - 1) :
                          upcoming_races[i].race_date < upcoming_races[j].race_date]

\* AutoF1RaceMonitor.get_next_race: the same search, but race_time > now
\* compares the parsed date with the naive datetime.now(); for a date with a
\* UTC offset the comparison raises TypeError, the except clause logs it and
\* the call returns (None, None)
get_next_race(races, t) ==
    IF \E i \in 1..Len(races) : races[i].race_date # Never /\ races[i].offset
    THEN NoRace
    ELSE schedule_get_next_race(races, t)

ShouldFetchOddsMutantExact(race_time, t) ==
    \E i \in 1..Len(odds_fetch_hours_before_race) :
        (race_time - t) = odds_fetch_hours_before_race[i]

\* should_fetch_odds at clock t
should_fetch_odds(race_time, t) ==
    \E i \in 1..Len(odds_fetch_hours_before_race) :
        Abs((race_time - t) - odds_fetch_hours_before_race[i]) <= window_hours

ShouldGeneratePredictionsMutantStrict(race_time, t) ==
    Abs((race_time - t) - prediction_hours_before_race) < window_hours

\* should_generate_predictions at clock t
should_generate_predictions(race_time, t) ==
    Abs((race_time - t) - prediction_hours_before_race) <= window_hours

\* should_process_results at clock t
should_process_results(race_time, t) ==
    /\ 0 <= t - race_time
    /\ t - race_time <= auto_process_results_hours_after_race

\* get_current_f1_schedule: the file it writes when fastf1 answers
FetchedSchedule(t) == [exists |-> TRUE, mtime |-> t, races |-> Season]

\* a schedule whose races are all over (the season that ended)
PastSeason ==
    <<[race_name |-> "Abu Dhabi Grand Prix", race_date |-> FirstRaceTime - 2000,
       offset |-> FALSE]>>

\* the test of line 366 at clock t
ScheduleStale(file, t) ==
    ~file.exists \/ t - file.mtime > schedule_refresh_hours

MonitorIdle ==
    /\ now = Instants[1]
    /\ schedule_file = NoSchedule
    /\ odds_file = NoTimedFile
    /\ pred_file = NoTimedFile
    /\ mpc = "sleep"
    /\ next_race = NoRace
    /\ cycle = NoCycle

\* the monitor is constructed: what it finds on disk
MonitorInit ==
    /\ now = Instants[1]
    /\ schedule_file \in
          {NoSchedule, FetchedSchedule(Instants[1])}
          \cup {[exists |-> TRUE, mtime |-> Instants[1] - schedule_refresh_hours - 10,
                 races |-> races] : races \in {Season, PastSeason}}
    /\ odds_file \in {NoTimedFile, [exists |-> TRUE, mtime |-> Instants[1] - recent_hours,
                                     race_name |-> PastSeason[1].race_name]}
    /\ pred_file \in {NoTimedFile, [exists |-> TRUE, mtime |-> Instants[1] - recent_hours,
                                     race_name |-> PastSeason[1].race_name]}
    /\ mpc = "sleep"
    /\ next_race = NoRace
    /\ cycle = NoCycle

\* run_monitoring_cycle, lines 320-330: get_next_race (which fetches the
\* schedule when the file is missing); the cycle ends when there is no race
GetNextRace ==
    /\ mpc = "sleep"
    /\ \E fetched \in BOOLEAN :
         LET races == IF schedule_file.exists THEN schedule_file.races
                      ELSE IF fetched THEN Season ELSE << >>
             race == get_next_race(races, now)
         IN  /\ schedule_file.exists => fetched
             /\ schedule_file' = IF ~schedule_file.exists /\ fetched
                                 THEN FetchedSchedule(now) ELSE schedule_file
             /\ next_race' = race
             /\ IF race = NoRace
                THEN /\ mpc' = "sleep"
                     /\ cycle' = [NoCycle EXCEPT !.start = now, !.done = TRUE,
                                                 !.stale = ScheduleStale(schedule_file, now),
                                                 !.refreshed = ~schedule_file.exists]
                ELSE /\ mpc' = "odds"
                     /\ cycle' = [NoCycle EXCEPT !.start = now,
                                                 !.race_time = race.race_date,
                                                 !.stale = ScheduleStale(schedule_file, now),
                                                 !.refreshed = ~schedule_file.exists]
    /\ UNCHANGED <<now, odds_file, pred_file>>
    /\ UNCHANGED evars
    /\ UNCHANGED pvars

FetchLiveOddsMutantRaises(delivered) == IF delivered THEN "True" ELSE "raise"

\* fetch_live_odds_for_race: what the call does when the provider delivers
\* odds and when it raises or returns nothing (both end in return False)
fetch_live_odds_for_race(delivered) == IF delivered THEN "True" ELSE "False"

\* lines 335-338: fetch_live_odds_for_race when should_fetch_odds; an
\* exception leaving the call would end the cycle in the except clause of
\* run_monitoring_cycle
FetchLiveOddsForRace ==
    /\ mpc = "odds"
    /\ \E delivered \in BOOLEAN :
         LET due == should_fetch_odds(next_race.race_date, now)
             ret == IF due THEN fetch_live_odds_for_race(delivered) ELSE "none"
         IN  /\ cycle' = [cycle EXCEPT !.odds_at = now, !.odds_due = due]
             /\ odds_file' = IF ret = "True"
                             THEN [exists |-> TRUE, mtime |-> now,
                                   race_name |-> next_race.race_name]
                             ELSE odds_file
             /\ mpc' = IF ret = "raise" THEN "sleep" ELSE "predictions"
    /\ UNCHANGED <<now, schedule_file, pred_file, next_race>>
    /\ UNCHANGED evars
    /\ UNCHANGED pvars

\* lines 340-343: generate_race_predictions when should_generate_predictions
GenerateRacePredictions ==
    /\ mpc = "predictions"
    /\ LET due == should_generate_predictions(next_race.race_date, now)
       IN  /\ cycle' = [cycle EXCEPT !.pred_at = now, !.pred_due = due]
           /\ \/ due /\ pred_file' = [exists |-> TRUE, mtime |-> now,
                                       race_name |-> next_race.race_name]
              \/ UNCHANGED pred_file
    /\ mpc' = "recommendations"
    /\ UNCHANGED <<now, schedule_file, odds_file, next_race>>
    /\ UNCHANGED evars
    /\ UNCHANGED pvars

\* lines 345-356: generate_betting_recommendations_for_race when both files
\* exist and are less than 48 hours old; it writes the recommendations file
\* (with or without the columns the evaluator reads) or writes nothing.
\* race_name is the value it puts in the race_name column, odds_race and
\* pred_race are the race_name values of the two files it has combined
GenerateBettingRecommendationsForRace ==
    /\ mpc = "recommendations"
    /\ \/ /\ odds_file.exists /\ pred_file.exists
          /\ now - odds_file.mtime < recent_hours
          /\ now - pred_file.mtime < recent_hours
          /\ \E shape \in {"ok", "bad"} :
               \E rows \in IF shape = "ok" THEN BetRowSeqs \ {<< >>} ELSE {<< >>} :
                  betting_file' = [exists |-> TRUE, shape |-> shape, rows |-> rows,
                                   race_name |-> next_race.race_name,
                                   odds_race |-> odds_file.race_name,
                                   pred_race |-> pred_file.race_name]
       \/ UNCHANGED betting_file
    /\ mpc' = "results"
    /\ UNCHANGED <<files, master_log, archive, processed_file, processed_races,
                   epc, new_files, cur, processed_count, last, before_log, prev,
                   rejected, arrivals>>
    /\ UNCHANGED <<now, schedule_file, odds_file, pred_file, next_race, cycle>>
    /\ UNCHANGED pvars

\* lines 358-361: process_race_results_auto when should_process_results; it
\* calls run_single_check of the evaluator
ProcessRaceResultsAuto ==
    /\ mpc = "results"
    /\ IF should_process_results(next_race.race_date, now)
       THEN /\ cycle' = [cycle EXCEPT !.scanned = TRUE]
            /\ \E listing \in Listings :
                 LET found == detect_new_race_files(listing, files, processed_races)
                 IN  IF found = << >>
                     THEN mpc' = "schedule" /\ UNCHANGED evars
                     ELSE mpc' = "evaluating" /\ EnterLoop(found)
       ELSE /\ mpc' = "schedule"
            /\ UNCHANGED cycle
            /\ UNCHANGED evars
    /\ UNCHANGED <<now, schedule_file, odds_file, pred_file, next_race>>
    /\ UNCHANGED pvars

\* run_single_check returns to process_race_results_auto (an exception is
\* caught there)
ProcessRaceResultsReturn ==
    /\ mpc = "evaluating"
    /\ LeaveLoop
    /\ mpc' = "schedule"
    /\ UNCHANGED <<now, schedule_file, odds_file, pred_file, next_race, cycle>>
    /\ UNCHANGED pvars

\* lines 363-367: the schedule is fetched again when its file is missing or
\* older than 24 hours; the cycle ends
UpdateRaceSchedule ==
    /\ mpc = "schedule"
    /\ IF ScheduleStale(schedule_file, now)
       THEN /\ \/ schedule_file' = FetchedSchedule(now)
               \/ UNCHANGED schedule_file
            /\ cycle' = [cycle EXCEPT !.done = TRUE, !.refreshed = TRUE]
       ELSE /\ UNCHANGED schedule_file
            /\ cycle' = [cycle EXCEPT !.done = TRUE]
    /\ mpc' = "sleep"
    /\ next_race' = NoRace
    /\ UNCHANGED <<now, odds_file, pred_file>>
    /\ UNCHANGED evars
    /\ UNCHANGED pvars

(* Environment of the monitor *)

MaxPublished == 1

\* the result file of the first race, as it is published
PublishedFiles ==
    {[present |-> TRUE, age |-> 60, readable |-> TRUE,
      cols |-> {"Driver", "Actual_Position"},
      rows |-> <<ResultRow("A", 3, NA)>>]}

\* the clock moves to the next instant, between two cycles or (once) inside
\* one; what the finished cycle did is forgotten when the clock moves on
Tick ==
    /\ mpc # "evaluating"
    /\ now < Instants[Len(Instants)]
    /\ ~cycle.ticked
    /\ cycle' = IF mpc = "sleep" THEN NoCycle ELSE [cycle EXCEPT !.ticked = TRUE]
    /\ now' = Instants[CHOOSE i \in 1..Len(Instants) :
                          /\ Instants[i] > now
                          /\ \A j \in 1..Len(Instants) :
                                Instants[j] > now => Instants[i] <= Instants[j]]
    /\ UNCHANGED <<schedule_file, odds_file, pred_file, mpc, next_race>>
    /\ UNCHANGED evars
    /\ UNCHANGED pvars

\* the results of the first race are published in the watch directory
ResultsPublished ==
    /\ mpc # "evaluating"
    /\ now >= FirstRaceTime
    /\ arrivals < MaxPublished
    /\ Arrives({<<"bahrain", "results">>}, PublishedFiles)
    /\ UNCHANGED mvars
    /\ UNCHANGED pvars

Init ==
    /\ EvalInit
    /\ MonitorIdle
    /\ probe = NoProbe

Next ==
    \/ RunSingleCheck
    \/ RunSingleCheckReturn
    \/ ProcessNewRaceResults
    \/ UpdateMasterLog
    \/ ArchiveProcessedFile
    \/ SaveProcessedRaces
    \/ FileArrives
    \/ FileAges
    \/ WriteRecommendations
    \/ ResetRegistry
    \/ Restart

Spec == Init /\ [][Next]_vars

----------------------------------------------------------------------------
(* One result file processed against one recommendations file: the inputs *)
(* are drawn from all driver sets and finishing positions.                *)

DriverOrder == <<"A", "B", "C", "D">>

InOrder(S) == SelectSeq(DriverOrder, LAMBDA d : d \in S)

JoinFile(Y, pos) ==
    LET order == InOrder(Y)
    IN  [present |-> TRUE, age |-> 60, readable |-> TRUE,
         cols |-> {"Driver", "Actual_Position"},
         rows |-> [i \in 1..Len(order) |-> ResultRow(order[i], pos[order[i]], NA)]]

\* finishing positions of a result file, a missing one among them
JoinPositions == Positions \cup {NaN}

\* the drivers whose recommendation may carry the flag SKIP
SkipDrivers == {"A", "B"}

\* the rows carry the recommendation column of calculate_value_bets; skip is
\* the set of drivers whose row is flagged SKIP
JoinBets(X, q, skip) ==
    LET order == InOrder(X)
        flagged(b) == [Race_Name |-> b.Race_Name, Driver |-> b.Driver, Quote |-> b.Quote,
                       recommendation |-> IF b.Driver \in skip THEN "SKIP" ELSE "BET"]
    IN  <<flagged(BetRow("Monaco GP", "B", q))>>
        \o [i \in 1..Len(order) |-> flagged(BetRow("Bahrain GP", order[i], q))]

JoinInit ==
    /\ \E Y \in SUBSET Drivers :
         \E pos \in [Y -> JoinPositions] :
            files = [n \in FileNames |->
                        IF n = <<"bahrain", "results">> THEN JoinFile(Y, pos) ELSE NoFile]
    /\ \E X \in SUBSET Drivers, q \in Quotes :
         \E skip \in SUBSET (X \cap SkipDrivers) :
            betting_file = [exists |-> TRUE, shape |-> "ok", rows |-> JoinBets(X, q, skip)]
    /\ master_log = NoLog
    /\ archive = << >>
    /\ processed_file = {}
    /\ processed_races = {}
    /\ epc = "idle"
    /\ new_files = << >>
    /\ cur = NoCur
    /\ processed_count = 0
    /\ last = NoLast
    /\ before_log = NoLog
    /\ prev = NoPrev
    /\ rejected = {}
    /\ arrivals = 0
    /\ MonitorIdle
    /\ probe = NoProbe

JoinNext ==
    \/ RunSingleCheck
    \/ RunSingleCheckReturn
    \/ ProcessNewRaceResults
    \/ UpdateMasterLog
    \/ ArchiveProcessedFile
    \/ SaveProcessedRaces

SpecJoin == JoinInit /\ [][JoinNext]_vars

----------------------------------------------------------------------------
(* The monitor running its cycles around the first race of the season *)

InitMonitor ==
    /\ EvalInit
    /\ MonitorInit
    /\ probe = NoProbe

NextMonitor ==
    \/ GetNextRace
    \/ FetchLiveOddsForRace
    \/ GenerateRacePredictions
    \/ GenerateBettingRecommendationsForRace
    \/ ProcessRaceResultsAuto
    \/ ProcessNewRaceResults
    \/ UpdateMasterLog
    \/ ArchiveProcessedFile
    \/ SaveProcessedRaces
    \/ ProcessRaceResultsReturn
    \/ UpdateRaceSchedule
    \/ Tick
    \/ ResultsPublished

SpecMonitor == InitMonitor /\ [][NextMonitor]_vars

----------------------------------------------------------------------------
(* get_next_race applied to a schedule file and a clock reading *)

MaxRaces == 3

RoundNames == <<"Round 1", "Round 2", "Round 3", "Round 4">>

\* the race_date entries of a schedule file: none, or a time with or without
\* a UTC offset
RaceDates ==
    {[race_date |-> Never, offset |-> FALSE]}
    \cup {[race_date |-> d, offset |-> o] : d \in {10, 20}, o \in BOOLEAN}

Schedules ==
    {[i \in 1..Len(ds) |-> [race_name |-> RoundNames[i], race_date |-> ds[i].race_date,
                            offset |-> ds[i].offset]] :
        ds \in SeqsUpTo(RaceDates, MaxRaces)}

InitSchedule ==
    /\ EvalInit
    /\ MonitorIdle
    /\ \E races \in Schedules, t \in {5, 10, 25} :
         probe = [fn |-> "get_next_race", races |-> races, t |-> t, done |-> FALSE,
                  monitor |-> NoRace, updater |-> NoRace]

\* both get_next_race functions read the schedule at clock t
ApplyGetNextRace ==
    /\ probe.fn = "get_next_race"
    /\ ~probe.done
    /\ probe' = [probe EXCEPT !.done = TRUE,
                              !.monitor = get_next_race(probe.races, probe.t),
                              !.updater = schedule_get_next_race(probe.races, probe.t)]
    /\ UNCHANGED <<evars, mvars>>

NextSchedule == ApplyGetNextRace

SpecSchedule == InitSchedule /\ [][NextSchedule]_vars

----------------------------------------------------------------------------
(* detect_new_race_files applied to a watch directory and a registry *)

\* file names of the watch directory: the last one matches no pattern
ScanNames == {<<"bahrain", "results">>, <<"monaco", "race", "results">>, <<"notes">>}

ScanAges == {10, 30, 60}

ScanFiles ==
    {NoFile}
    \cup {[present |-> TRUE, age |-> a, readable |-> TRUE,
           cols |-> {"Driver", "Actual_Position"}, rows |-> << >>] : a \in ScanAges}

ScanListings ==
    {l \in SeqsUpTo(ScanNames, Cardinality(ScanNames)) :
        Len(l) = Cardinality(ScanNames) /\ \A n \in ScanNames : \E i \in 1..Len(l) : l[i] = n}

InitScan ==
    /\ EvalInit
    /\ MonitorIdle
    /\ \E dir \in [ScanNames -> ScanFiles], registry \in SUBSET ScanNames,
          listing \in ScanListings :
         probe = [fn |-> "detect_new_race_files", dir |-> dir, registry |-> registry,
                  listing |-> listing, done |-> FALSE, new_files |-> << >>]

ApplyDetectNewRaceFiles ==
    /\ probe.fn = "detect_new_race_files"
    /\ ~probe.done
    /\ probe' = [probe EXCEPT !.done = TRUE,
                              !.new_files = detect_new_race_files(probe.listing, probe.dir,
                                                                  probe.registry)]
    /\ UNCHANGED <<evars, mvars>>

NextScan == ApplyDetectNewRaceFiles

SpecScan == InitScan /\ [][NextScan]_vars

----------------------------------------------------------------------------
(* value_bet_calculator.calculate_expected_value.  Probabilities and odds are
   in hundredths; an expected value is in ten-thousandths. *)

Hundredths == 100

Probabilities == {0, 10, 25, 50, 55, 75, 90, 100}

DecimalOdds == {100, 150, 180, 200, 450, 600}

Stakes == {1, 10}

calculate_expected_value(probability, odds, stake) ==
    LET win_amount == odds * stake
        lose_amount == Hundredths * stake
    IN  (probability * win_amount) - ((Hundredths - probability) * lose_amount)

InitEV ==
    /\ EvalInit
    /\ MonitorIdle
    /\ \E pr \in Probabilities, o \in DecimalOdds, st \in Stakes :
         probe = [fn |-> "calculate_expected_value", probability |-> pr, odds |-> o,
                  stake |-> st, done |-> FALSE, ev |-> 0]

ApplyCalculateExpectedValue ==
    /\ probe.fn = "calculate_expected_value"
    /\ ~probe.done
    /\ probe' = [probe EXCEPT !.done = TRUE,
                              !.ev = calculate_expected_value(probe.probability, probe.odds,
                                                              probe.stake)]
    /\ UNCHANGED <<evars, mvars>>

NextEV == ApplyCalculateExpectedValue

SpecEV == InitEV /\ [][NextEV]_vars

----------------------------------------------------------------------------
(* extract_race_name_from_file and the frame process_new_race_results joins *)

\* file names: one keyword, two keywords, none
NamedFiles == {<<"bahrain", "results">>, <<"results", "monaco", "bahrain">>,
               <<"race", "results">>, <<"actual">>}

NamedRows == {ResultRow(d, 3, r) : d \in EvalDrivers, r \in RaceNames \cup {NA}}

\* an unreadable file, files without a Race_Name column, files with one
NamedContents ==
    {[present |-> TRUE, age |-> 60, readable |-> FALSE, cols |-> {}, rows |-> << >>]}
    \cup {[present |-> TRUE, age |-> 60, readable |-> TRUE,
           cols |-> {"Driver", "Actual_Position"}, rows |-> rows] :
             rows \in SeqsUpTo({ResultRow(d, 3, NA) : d \in EvalDrivers}, MaxRows)}
    \cup {[present |-> TRUE, age |-> 60, readable |-> TRUE,
           cols |-> {"Driver", "Actual_Position", "Race_Name"}, rows |-> rows] :
             rows \in SeqsUpTo(NamedRows, MaxRows)}

InitName ==
    /\ EvalInit
    /\ MonitorIdle
    /\ \E n \in NamedFiles, f \in NamedContents :
         probe = [fn |-> "extract_race_name_from_file", file_name |-> n, f |-> f,
                  done |-> FALSE, race_name |-> NA, results_df |-> << >>]

\* process_new_race_results, lines 196-209
ApplyExtractRaceName ==
    /\ probe.fn = "extract_race_name_from_file"
    /\ ~probe.done
    /\ LET race_name == extract_race_name_from_file(probe.file_name, probe.f)
       IN  probe' = [probe EXCEPT !.done = TRUE,
                                  !.race_name = race_name,
                                  !.results_df =
                                      IF validate_race_results_file(probe.f)
                                      THEN results_df(probe.f, race_name)
                                      ELSE << >>]
    /\ UNCHANGED <<evars, mvars>>

NextName == ApplyExtractRaceName

SpecName == InitName /\ [][NextName]_vars

----------------------------------------------------------------------------
(* run_continuous_monitoring stopped by the operator and started again *)

MaxInterrupts == 2

\* the ledger a check that is not interrupted writes for file n
UninterruptedLog(n, f, betting_df) ==
    LET race_name == extract_race_name_from_file(n, f)
    IN  update_master_log(NoLog,
            simulate_bets(race_bets(betting_df, race_name), results_df(f, race_name),
                          bet_amount, success_threshold))

InterruptInit ==
    /\ master_log = NoLog
    /\ archive = << >>
    /\ processed_file = {}
    /\ processed_races = {}
    /\ epc = "idle"
    /\ new_files = << >>
    /\ cur = NoCur
    /\ processed_count = 0
    /\ last = NoLast
    /\ before_log = NoLog
    /\ prev = NoPrev
    /\ rejected = {}
    /\ arrivals = 0
    /\ MonitorIdle
    /\ \E rows \in SeqsUpTo(ResultRows, MaxRows) \ {<< >>}, bets \in SeqsUpTo(BetRows, 2) :
         LET f == [present |-> TRUE, age |-> 60, readable |-> TRUE,
                   cols |-> {"Driver", "Actual_Position"}, rows |-> rows]
         IN  /\ files = [n \in FileNames |->
                            IF n = <<"bahrain", "results">> THEN f ELSE NoFile]
             /\ betting_file = [exists |-> TRUE, shape |-> "ok", rows |-> bets]
             /\ probe = [fn |-> "interrupt", interrupts |-> 0,
                         expected |-> UninterruptedLog(<<"bahrain", "results">>, f, bets)]

\* KeyboardInterrupt reaches the main thread wherever it is: the except
\* clause of run_continuous_monitoring logs it and the program ends
KeyboardInterrupt ==
    /\ epc # "stopped"
    /\ probe.fn = "interrupt"
    /\ probe.interrupts < MaxInterrupts
    /\ probe' = [probe EXCEPT !.interrupts = @ + 1]
    /\ last' = [file |-> cur.file_path, ret |-> "interrupt", stage |-> epc,
                no_recs |-> FALSE]
    /\ epc' = "stopped"
    /\ new_files' = << >>
    /\ cur' = NoCur
    /\ processed_count' = 0
    /\ UNCHANGED <<files, betting_file, master_log, archive, processed_file,
                   processed_races, before_log, prev, rejected, arrivals>>
    /\ UNCHANGED mvars

NextInterrupt ==
    \/ RunSingleCheck
    \/ RunSingleCheckReturn
    \/ ProcessNewRaceResults
    \/ UpdateMasterLog
    \/ ArchiveProcessedFile
    \/ SaveProcessedRaces
    \/ KeyboardInterrupt
    \/ Restart

SpecInterrupt == InterruptInit /\ [][NextInterrupt]_vars

\* the program is started again after a stop and goes on checking; each
\* statement of a running check is reached unless the operator stops it
SpecInterruptFair ==
    /\ SpecInterrupt
    /\ WF_vars(Restart)
    /\ WF_vars(RunSingleCheck)
    /\ WF_vars(RunSingleCheckReturn)
    /\ WF_vars(ProcessNewRaceResults)
    /\ WF_vars(UpdateMasterLog)
    /\ WF_vars(ArchiveProcessedFile)
    /\ WF_vars(SaveProcessedRaces)

----------------------------------------------------------------------------
(* LiveDashboardUpdater.update_dashboard_data beside the monitor: both use
   data/live/betting_recommendations.csv.  generated counts the
   recommendation sets the monitor has written, on_disk is the one the file
   holds, held the one the dashboard has read. *)

MaxGenerations == 3

DashboardInit ==
    /\ EvalInit
    /\ MonitorIdle
    /\ probe = [fn |-> "dashboard", dpc |-> "idle", recommendations |-> NoBettingFile,
                generated |-> 0, on_disk |-> 0, held |-> 0]

\* generate_betting_recommendations_for_race, lines 257-266: the monitor
\* writes the recommendations of its cycle
MonitorWritesRecommendations ==
    /\ probe.fn = "dashboard"
    /\ probe.generated < MaxGenerations
    /\ \E rows \in BetRowSeqs \ {<< >>} :
         betting_file' = [exists |-> TRUE, shape |-> "ok", rows |-> rows]
    /\ probe' = [probe EXCEPT !.generated = @ + 1, !.on_disk = probe.generated + 1]
    /\ UNCHANGED <<files, master_log, archive, processed_file, processed_races,
                   epc, new_files, cur, processed_count, last, before_log, prev,
                   rejected, arrivals>>
    /\ UNCHANGED mvars

\* update_dashboard_data, step 4: recommendations = pd.read_csv(rec_file)
DashboardReadsRecommendations ==
    /\ probe.fn = "dashboard"
    /\ probe.dpc = "idle"
    /\ betting_file.exists
    /\ probe' = [probe EXCEPT !.dpc = "copy", !.recommendations = betting_file,
                              !.held = probe.on_disk]
    /\ UNCHANGED <<evars, mvars>>

\* update_dashboard_data, step 4: recommendations.to_csv(live_recommendations),
\* which is the path it has read from
DashboardWritesRecommendations ==
    /\ probe.fn = "dashboard"
    /\ probe.dpc = "copy"
    /\ betting_file' = probe.recommendations
    /\ probe' = [probe EXCEPT !.dpc = "idle", !.on_disk = probe.held]
    /\ UNCHANGED <<files, master_log, archive, processed_file, processed_races,
                   epc, new_files, cur, processed_count, last, before_log, prev,
                   rejected, arrivals>>
    /\ UNCHANGED mvars

NextDashboard ==
    \/ MonitorWritesRecommendations
    \/ DashboardReadsRecommendations
    \/ DashboardWritesRecommendations

SpecDashboard == DashboardInit /\ [][NextDashboard]_vars

----------------------------------------------------------------------------
(* start_continuous_monitoring: the cycle runs every 30 minutes; what the
   polls before one race find due.  Times are in tenths of an hour. *)

poll_interval == 5

\* the race is PollHorizon after the start of the monitor
PollHorizon == 800

\* the clock reading of the first poll
PollPhases == 0..(poll_interval - 1)

InitPoll ==
    /\ EvalInit
    /\ MonitorIdle
    /\ \E phase \in PollPhases :
         probe = [fn |-> "poll", t |-> phase, done |-> FALSE,
                  odds_polls |-> {}, pred_polls |-> {}]

\* one run of run_monitoring_cycle by schedule.run_pending: the hours to the
\* race at which should_fetch_odds and should_generate_predictions answer yes
ApplyRunPending ==
    /\ probe.fn = "poll"
    /\ ~probe.done
    /\ IF probe.t >= PollHorizon
       THEN probe' = [probe EXCEPT !.done = TRUE]
       ELSE probe' = [probe EXCEPT
                !.t = @ + poll_interval,
                !.odds_polls = IF should_fetch_odds(PollHorizon, probe.t)
                               THEN @ \cup {PollHorizon - probe.t} ELSE @,
                !.pred_polls = IF should_generate_predictions(PollHorizon, probe.t)
                               THEN @ \cup {PollHorizon - probe.t} ELSE @]
    /\ UNCHANGED <<evars, mvars>>

NextPoll == ApplyRunPending

SpecPoll == InitPoll /\ [][NextPoll]_vars

----------------------------------------------------------------------------
(* Properties *)

Range(seq) == {seq[i] : i \in 1..Len(seq)}

\* C1: the master log never holds two rows for the same (Race_Name, Driver)
\* pair, whatever files were processed or reprocessed and whether or not the
\* registry was cleared in between.
NoDoubleSettlement ==
    \A i, j \in 1..Len(master_log.rows) :
        (/\ master_log.rows[i].Race_Name = master_log.rows[j].Race_Name
         /\ master_log.rows[i].Driver = master_log.rows[j].Driver) => i = j

\* a pair already in the log has just been settled again with another result
SettledAgain ==
    /\ epc = "archive"
    /\ \E i \in 1..Len(before_log.rows), j \in 1..Len(cur.simulation_log) :
          /\ before_log.rows[i].Race_Name = cur.simulation_log[j].Race_Name
          /\ before_log.rows[i].Driver = cur.simulation_log[j].Driver
          /\ before_log.rows[i].Actual_Position # cur.simulation_log[j].Actual_Position

\* C2: when the file processed is the one of the latest master log update and
\* it yields the same simulation log again (same content, recommendations
\* unchanged), the update leaves the master log exactly as it was.
IdempotentReprocessing ==
    [][(/\ epc = "update_master_log"
        /\ prev.file_path = cur.file_path
        /\ prev.simulation_log = cur.simulation_log)
       => master_log' = master_log]_vars

\* the same file was put back and has gone through update_master_log twice
ProcessedTwice ==
    /\ epc = "archive"
    /\ cur.replay
    /\ cur.simulation_log # << >>
    /\ cur.file_path \in Range(archive)
    /\ master_log = before_log

NoPartialMutationOnFailure ==
    last.ret \in {"False", "raise"} => master_log = before_log

\* C5: a file in the watch directory that is unreadable or lacks the Driver or
\* the Actual_Position column makes process_new_race_results return False at
\* once with the master log, the registry, the archive and the watch directory
\* unchanged; and every later scan returns the file again until it is rewritten.
InvalidFile(f) ==
    ~f.readable \/ "Driver" \notin f.cols \/ "Actual_Position" \notin f.cols

ValidationFailureChangesNothing ==
    /\ [][(/\ epc = "loop"
           /\ new_files # << >>
           /\ files[Head(new_files)].present
           /\ InvalidFile(files[Head(new_files)]))
          => /\ UNCHANGED <<files, master_log, archive, processed_file, processed_races,
                            processed_count>>
             /\ last'.ret = "False"
             /\ Head(new_files) \in rejected']_vars
    /\ [](\A n \in rejected :
            /\ files[n].present
            /\ \A listing \in Listings :
                 n \in Range(detect_new_race_files(listing, files, processed_races)))

\* a rejected file has been returned by a later scan
RejectedFileScannedAgain ==
    /\ epc = "loop"
    /\ new_files = << <<"bahrain", "results">> >>
    /\ <<"bahrain", "results">> \in rejected
    /\ InvalidFile(files[<<"bahrain", "results">>])

\* C6: a call for a valid file whose race has no recommendation row (the
\* recommendations file may be absent) returns True with the file archived and
\* its name in the registry, whatever the master log holds.
NoRecommendationsIsSuccess ==
    (last.ret # "none" /\ last.no_recs) =>
        /\ last.ret = "True"
        /\ ~files[last.file].present
        /\ last.file \in processed_file

\* C9: for one race with recommendations for the driver set X and results for
\* the driver set Y, the master log written by the call holds exactly one row
\* per driver of X \cap Y, all for that race; a driver on one side only has
\* no row.
RecommendedDrivers ==
    {betting_file.rows[i].Driver :
        i \in {k \in 1..Len(betting_file.rows) :
                  betting_file.rows[k].Race_Name = cur.race_name}}

ResultDrivers ==
    {files[cur.file_path].rows[i].Driver : i \in 1..Len(files[cur.file_path].rows)}

JoinSettlesIntersection ==
    epc = "archive" =>
        /\ {master_log.rows[i].Driver : i \in 1..Len(master_log.rows)}
              = RecommendedDrivers \cap ResultDrivers
        /\ Len(master_log.rows) = Cardinality(RecommendedDrivers \cap ResultDrivers)
        /\ \A i \in 1..Len(master_log.rows) :
              master_log.rows[i].Race_Name = cur.race_name

\* recommendations for {A,B,C}, results for {B,C,D}: B and C are settled
JoinExample ==
    /\ epc = "archive"
    /\ RecommendedDrivers = {"A", "B", "C"}
    /\ ResultDrivers = {"B", "C", "D"}
    /\ {master_log.rows[i].Driver : i \in 1..Len(master_log.rows)} = {"B", "C"}

\* C10: every row of the master log has outcome WIN exactly when its actual
\* position is at most 3 (LOSS otherwise) and profit odds * 10 - 10 on WIN,
\* -10 on LOSS; at odds 5 position 2 gives WIN +40 and position 5 LOSS -10.
SettlementRule ==
    \A i \in 1..Len(master_log.rows) :
        LET r == master_log.rows[i]
        IN  /\ r.Outcome \in {"WIN", "LOSS"}
            /\ r.Outcome = "WIN" <=> (r.Actual_Position # NaN /\ r.Actual_Position <= 3)
            /\ r.Outcome = "WIN" => r.Profit_Loss = r.Quote * 10 - 10
            /\ r.Outcome = "LOSS" => r.Profit_Loss = -10
            /\ (r.Quote = 5 /\ r.Actual_Position = 2) =>
                   (r.Outcome = "WIN" /\ r.Profit_Loss = 40)
            /\ (r.Quote = 5 /\ r.Actual_Position = 5) =>
                   (r.Outcome = "LOSS" /\ r.Profit_Loss = -10)

\* one call settled a WIN at position 2 and a LOSS at position 5
SettlementExample ==
    \E i, j \in 1..Len(master_log.rows) :
        /\ master_log.rows[i].Quote = 5
        /\ master_log.rows[i].Actual_Position = 2
        /\ master_log.rows[i].Outcome = "WIN"
        /\ master_log.rows[i].Profit_Loss = 40
        /\ master_log.rows[j].Quote = 5
        /\ master_log.rows[j].Actual_Position = 5
        /\ master_log.rows[j].Outcome = "LOSS"
        /\ master_log.rows[j].Profit_Loss = -10

\* C7: a monitoring cycle that begins while now lies in [start, start + 4h]
\* of a scheduled race invokes the result scan (run_single_check) before it
\* ends.
InResultWindow(t) ==
    \E i \in 1..Len(schedule_file.races) :
        /\ 0 <= t - schedule_file.races[i].race_date
        /\ t - schedule_file.races[i].race_date <= 40

CycleInWindowScans ==
    (cycle.done /\ InResultWindow(cycle.start)) => cycle.scanned

\* C8: with race start T, offset 24h and tolerance 1h, the 24h action (the
\* predictions, and the odds fetch of the 24h offset) is not due at T - 25.1h,
\* is due at T - 25h and at T - 24h, and is not due at T - 22.9h.
WindowAt(before, due) ==
    /\ (cycle.odds_at # Never /\ cycle.race_time - cycle.odds_at = before)
          => cycle.odds_due = due
    /\ (cycle.pred_at # Never /\ cycle.race_time - cycle.pred_at = before)
          => cycle.pred_due = due

ClockPolicyWindowInclusive ==
    /\ WindowAt(251, FALSE)
    /\ WindowAt(250, TRUE)
    /\ WindowAt(240, TRUE)
    /\ WindowAt(229, FALSE)

\* the predictions were found due exactly 25 hours before the race
DueAtTwentyFiveHours ==
    /\ cycle.pred_at # Never
    /\ cycle.race_time - cycle.pred_at = 250
    /\ cycle.pred_due
    /\ pred_file.exists
    /\ pred_file.mtime = now

\* C8 as stated: not due at T - 25h, due at T - 24h, not due at T - 22.9h
ClockPolicyWindowAsStated ==
    /\ WindowAt(250, FALSE)
    /\ WindowAt(240, TRUE)
    /\ WindowAt(229, FALSE)

\* C11: get_next_race returns the race with the earliest start time strictly
\* after now, skipping races without a start time; none when there is no such
\* race; of two races with the same earliest start time, the first in list
\* order.
EarliestUpcoming(races, t, race) ==
    IF \A i \in 1..Len(races) : races[i].race_date = Never \/ races[i].race_date <= t
    THEN race = NoRace
    ELSE \E i \in 1..Len(races) :
            /\ race = races[i]
            /\ races[i].race_date # Never
            /\ races[i].race_date > t
            /\ \A j \in 1..Len(races) :
                  (races[j].race_date # Never /\ races[j].race_date > t) =>
                      /\ races[i].race_date <= races[j].race_date
                      /\ (races[j].race_date = races[i].race_date => i <= j)

NextRaceIsEarliestUpcoming ==
    (probe.fn = "get_next_race" /\ probe.done) =>
        /\ EarliestUpcoming(probe.races, probe.t, probe.updater)
        /\ EarliestUpcoming(probe.races, probe.t, probe.monitor)

\* C12: a monitoring cycle that begins with the schedule file absent or
\* older than 24 hours calls get_current_f1_schedule before it ends, whatever
\* races the file lists.
StaleScheduleRefreshed ==
    (cycle.done /\ cycle.stale) => cycle.refreshed

\* C13: detect_new_race_files returns exactly the files of the watch
\* directory that match at least one pattern, whose name is not in the
\* registry and whose age is at least 30 seconds; of a file aged 10 seconds
\* and one aged 60 seconds it returns only the second.
ScanReturnsEligibleFiles ==
    (probe.fn = "detect_new_race_files" /\ probe.done) =>
        /\ Range(probe.new_files) =
              {n \in ScanNames :
                  /\ probe.dir[n].present
                  /\ \E i \in 1..Len(file_patterns) : Matches(file_patterns[i], n)
                  /\ n \notin probe.registry
                  /\ probe.dir[n].age >= 30}
        /\ \A n \in Range(probe.new_files) : probe.dir[n].age # 10

\* files aged 10 and 60 seconds, both matching and unregistered: only the
\* second is returned
ScanExample ==
    /\ probe.fn = "detect_new_race_files"
    /\ probe.done
    /\ probe.registry = {}
    /\ probe.dir[<<"bahrain", "results">>].present
    /\ probe.dir[<<"bahrain", "results">>].age = 60
    /\ probe.dir[<<"monaco", "race", "results">>].present
    /\ probe.dir[<<"monaco", "race", "results">>].age = 10
    /\ probe.new_files = << <<"bahrain", "results">> >>

SeriesInFirstAppearanceOrder ==
    master_log.state = "ok" =>
        LET series == capital_series(master_log.rows)
        IN  [k \in 1..Len(series) |-> series[k].race] =
                Unique([i \in 1..Len(master_log.rows) |-> master_log.rows[i].Race_Name])

\* C16: the capital at the k-th race of the series is the capital at race
\* k-1 plus the summed Profit_Loss of the log rows of race k, the capital
\* before the first race being the starting capital; the races of the
\* series are the races that have a row in the log, each once.
CapitalRecurrence ==
    master_log.state = "ok" =>
        LET series == capital_series(master_log.rows)
            before(k) == IF k = 1 THEN starting_capital ELSE series[k - 1].capital
        IN  /\ {series[k].race : k \in 1..Len(series)} =
                  {master_log.rows[i].Race_Name : i \in 1..Len(master_log.rows)}
            /\ \A j, k \in 1..Len(series) : series[j].race = series[k].race => j = k
            /\ \A k \in 1..Len(series) :
                  series[k].capital =
                      before(k) + SumProfit(SelectSeq(master_log.rows,
                                      LAMBDA e : e.Race_Name = series[k].race))

\* a log of two races, a won bet in one and a lost bet in the other
TwoRaceSeries ==
    /\ master_log.state = "ok"
    /\ Len(capital_series(master_log.rows)) = 2
    /\ \E i, j \in 1..Len(master_log.rows) :
          /\ master_log.rows[i].Outcome = "WIN"
          /\ master_log.rows[j].Outcome = "LOSS"

\* C17: for a unit stake the expected value of a bet with probability p
\* and decimal odds o is p * (o - 1) - (1 - p).
ExpectedValueAsStated ==
    (probe.fn = "calculate_expected_value" /\ probe.done /\ probe.stake = 1) =>
        probe.ev = probe.probability * (probe.odds - Hundredths)
                       - (Hundredths - probe.probability) * Hundredths

\* C18: a result row without a finishing position produces no row of the
\* master log, even when the driver is recommended for that race.
NullPositionContributesNothing ==
    \A i \in 1..Len(master_log.rows) : master_log.rows[i].Actual_Position # NaN

\* the distinct values of a file's Race_Name column
ColumnValues(f) == {f.rows[i].Race_Name : i \in 1..Len(f.rows)}

\* C19: extract_race_name_from_file follows the ordered fallback: a file
\* name holding a location keyword gives the name of that keyword (of the
\* first one in race_indicators when it holds several), whatever the content;
\* otherwise a readable file whose Race_Name column holds exactly one distinct
\* value (an empty cell counting as a value, as unique() counts it) gives
\* that value; otherwise the timestamp name.
NameFollowsOrderedFallback ==
    (probe.fn = "extract_race_name_from_file" /\ probe.done) =>
        LET hits == {i \in 1..Len(race_indicators) :
                        HasWord(probe.file_name, race_indicators[i][1])}
            f == probe.f
        IN  IF hits # {}
            THEN \E i \in hits :
                    /\ \A j \in hits : i <= j
                    /\ probe.race_name = race_indicators[i][2]
            ELSE IF f.readable /\ "Race_Name" \in f.cols /\ Cardinality(ColumnValues(f)) = 1
            THEN probe.race_name \in ColumnValues(f)
            ELSE probe.race_name = TimestampName

\* a file named after Bahrain whose Race_Name column says Monaco GP
KeywordBeatsContent ==
    /\ probe.fn = "extract_race_name_from_file"
    /\ probe.done
    /\ probe.file_name = <<"bahrain", "results">>
    /\ "Race_Name" \in probe.f.cols
    /\ ColumnValues(probe.f) = {"Monaco GP"}
    /\ probe.race_name = "Bahrain GP"

\* C20: no result row enters the join without a race name, whether the
\* file has no Race_Name column or has one with empty cells.
NoRowWithoutRaceName ==
    (probe.fn = "extract_race_name_from_file" /\ probe.done) =>
        \A i \in 1..Len(probe.results_df) : probe.results_df[i].Race_Name # NA

FailureIsCountedNotRaised ==
    /\ epc # "raised"
    /\ last.ret # "raise"

\* C23: a stop by the operator never leaves a file whose bets are in the
\* master log without the file being archived and recorded in the registry.
StopOnlyBetweenCycles ==
    epc = "stopped" =>
        ~(/\ last.stage \in {"archive", "registry"}
          /\ prev.file_path = last.file
          /\ prev.simulation_log # << >>
          /\ (files[last.file].present \/ last.file \notin processed_file))

FileHoldsLatestRecommendations ==
    probe.fn = "dashboard" => probe.on_disk = probe.generated

\* C25: with a poll every 30 minutes, each odds offset (72, 48, 24, 12, 6
\* and 2 hours) and the prediction offset (24 hours) is found due by at
\* least one poll before the race, and no poll finds an action due further
\* than one hour from its offset.
EveryTriggerMetInsideItsWindow ==
    LET offsets == {odds_fetch_hours_before_race[i] :
                       i \in 1..Len(odds_fetch_hours_before_race)}
    IN  /\ (probe.fn = "poll" /\ probe.done) =>
              /\ \A o \in offsets :
                    \E h \in probe.odds_polls : h > 0 /\ h - o <= 10 /\ o - h <= 10
              /\ \E h \in probe.pred_polls : h > 0 /\ h - 240 <= 10 /\ 240 - h <= 10
        /\ probe.fn = "poll" =>
              /\ \A h \in probe.odds_polls :
                    \E o \in offsets : h - o <= 10 /\ o - h <= 10
              /\ \A h \in probe.pred_polls : h - 240 <= 10 /\ 240 - h <= 10

\* the polls fall on no offset exactly and have passed the race: the two-hour
\* offset was met at 2.8 hours and at 1.3 hours before the race
PollsOffTheOffsets ==
    /\ probe.fn = "poll"
    /\ probe.done
    /\ 20 \notin probe.odds_polls
    /\ 28 \in probe.odds_polls
    /\ 13 \in probe.odds_polls
    /\ 238 \in probe.pred_polls

\* C26: the list detect_new_race_files returns holds no file twice, a file
\* whose name matches several patterns included.
NoFileReturnedTwice ==
    (probe.fn = "detect_new_race_files" /\ probe.done) =>
        \A i, j \in 1..Len(probe.new_files) :
            probe.new_files[i] = probe.new_files[j] => i = j

\* C27: the recommendations the monitor writes under a race name are
\* computed from odds and predictions fetched and generated for that race.
RecommendationsFromSameRace ==
    betting_file.exists =>
        /\ betting_file.odds_race = betting_file.race_name
        /\ betting_file.pred_race = betting_file.race_name

\* C28: the recommendations generated for the first race are still in the
\* recommendations file, under its name, while the race has started and its
\* result file is not processed: no step of a cycle removes or re-tags them.
RecommendationsSurviveUntilSettlement ==
    [][(/\ betting_file.exists
        /\ betting_file.race_name = Season[1].race_name
        /\ now >= FirstRaceTime
        /\ <<"bahrain", "results">> \notin processed_races)
       => (/\ betting_file'.exists
           /\ betting_file'.race_name = Season[1].race_name)]_vars

\* C29: a recommendation row flagged SKIP for a race has no row in the master
\* log once that race's results are processed, so it adds no profit or loss.
SkippedRowsNotSettled ==
    \A i \in 1..Len(betting_file.rows) :
        betting_file.rows[i].recommendation = "SKIP" =>
            ~(\E j \in 1..Len(master_log.rows) :
                 /\ master_log.rows[j].Race_Name = betting_file.rows[i].Race_Name
                 /\ master_log.rows[j].Driver = betting_file.rows[i].Driver)

====
